---------------------------- MODULE Spec2Model ----------------------------
(* Warehouse grid (setGrid.py / grid.py) and the A* pathfinder (search.py). *)
(* A grid is a list of rows, grid[y][x], 0 = aisle, 1 = shelf; Python     *)
(* lists are modelled as functions on 0..n-1.  A coordinate (x, y) is the *)
(* tuple <<x, y>>, so Python's p[0], p[1] are p[1], p[2] here.            *)
EXTENDS Integers, Sequences, FiniteSets, TLC

(* ------------------------------ bounds --------------------------------- *)
MaxW == 3
MaxH == 3
MaxShelves == 2

\* Grids a GridEnvironment is built on, and how far past max_steps the step
\* counter is followed.
EnvW == 2
EnvH == 2
EnvWalls == 1
MaxOver == 2

\* Grids on which two calls are interleaved.
ParW == 3
ParH == 1
ParShelves == 1

\* Warehouses generate_warehouse is run for.
WhW == 4
WhH == 3

\* Defaults of generate_warehouse(w=63, h=13, a1=0, a2=6, a3=12).
DefaultW == 63
DefaultH == 13
DefaultA1 == 0
DefaultA2 == 6
DefaultA3 == 12

\* dqn_model.py line 145: self.max_steps = 300
max_steps == 300

(* --------------------------- Python values ----------------------------- *)
\* None.  A list returned by a_star_search always holds start, so the empty
\* tuple is free to stand for None.
None == <<>>

\* float("inf"): a cost above every cost a path in the grid can have.
inf == (MaxW + 1) * (MaxH + 1) + DefaultW * DefaultH + 1

Abs(n) == IF n < 0 THEN -n ELSE n

VARIABLES
  grid,        \* the warehouse grid, grid[y][x]
  pc,          \* position of the caller / of a_star_search
  start,       \* argument start of the running call
  arg_goal,    \* argument goal as passed by the caller
  goal,        \* local goal of a_star_search (reassigned on a shelf goal)
  open_set,    \* heap entries <<f, g, coord>> in insertion order
  came_from,   \* dict coord -> coord
  g_cost,      \* dict coord -> cost from start
  expansions,  \* number of pops
  current,     \* entry popped last, <<f, g, coord>>
  di,          \* index into directions of the for loop
  path,        \* list built by the reconstruction
  node,        \* cursor of the back-pointer walk
  result,      \* returned (path, cost, expansions)
  popped,      \* coordinates popped so far by the running call, in order
  sample,      \* row built by generate_sample from the returned result
  dims,        \* (width, height) the grid was created with
  placed,      \* coordinates add_obstacle was called with
  raised,      \* exception raised by the last add_obstacle call
  aisle_rows,  \* (a1, a2, a3) passed to generate_warehouse
  other,       \* locals of a second a_star_search call on the same grid
  probe,       \* the last is_free call: its arguments and what it gave
  env          \* the fields of a GridEnvironment and what its last call gave

vars == <<grid, pc, start, arg_goal, goal, open_set, came_from, g_cost,
          expansions, current, di, path, node, result, popped, sample,
          dims, placed, raised, aisle_rows, other, probe, env>>

\* What the grid builder keeps besides the grid.
builder == <<dims, placed, raised, aisle_rows>>

\* What lives apart from the search: the is_free probe and the environment.
rest == <<probe, env>>

(* ------------------------------ setGrid.py ----------------------------- *)
create_grid(width, height) ==
  [y \in 0..(height - 1) |-> [x \in 0..(width - 1) |-> 0]]

\* Variant: row and column are exchanged.
add_obstacle_swapped(g, x, y) == [g EXCEPT ![x][y] = 1]

add_obstacle(g, x, y) == [g EXCEPT ![y][x] = 1]

Height(g) == Cardinality(DOMAIN g)
Width(g) == Cardinality(DOMAIN g[0])

Cells(g) == (0..(Width(g) - 1)) \X (0..(Height(g) - 1))
IsShelf(g, p) == g[p[2]][p[1]] = 1
IsAisle(g, p) == g[p[2]][p[1]] = 0
Shelves(g) == {p \in Cells(g) : IsShelf(g, p)}

\* Variant: the even columns are filled.
IsShelfColumn_even(i) == i % 2 = 0

\* setGrid.py line 79: i % 2 == 1
IsShelfColumn(i) == i % 2 = 1

\* Lines 77-80: every cell (i, j) is visited once and add_obstacle(grid, i, j)
\* turns it into a shelf when i is odd.
FillOdd(g, w, h) ==
  [j \in 0..(h - 1) |->
     [i \in 0..(w - 1) |->
        IF IsShelfColumn(i) THEN add_obstacle(g, i, j)[j][i] ELSE g[j][i]]]

\* Variant: only a1 names an aisle row.
IsAisleRow_first(a, a1, a2, a3) == a = a1

\* Variant: only a3 names an aisle row.
IsAisleRow_last(a, a1, a2, a3) == a = a3

\* Variant: only a1 and a2 are looked at.
IsAisleRow_two(a, a1, a2, a3) == a \in {a1, a2}

\* Line 84: a in (a1, a2, a3)
IsAisleRow(a, a1, a2, a3) == a \in {a1, a2, a3}

\* Lines 83-86: grid[a][b] = 0 for every b in range(w) of the rows a named
\* by a1, a2, a3.
ClearRows(g, w, h, a1, a2, a3) ==
  [a \in 0..(h - 1) |->
     [b \in 0..(w - 1) |->
        IF IsAisleRow(a, a1, a2, a3) THEN 0 ELSE g[a][b]]]

generate_warehouse(w, h, a1, a2, a3) ==
  ClearRows(FillOdd(create_grid(w, h), w, h), w, h, a1, a2, a3)

\* save_aisles_as_array: the aisle coordinates of a grid.
Aisles(g) == {p \in Cells(g) : IsAisle(g, p)}

(* --------------------------- dataSetGenerator.py ------------------------ *)
\* Variant: the row records the number of coordinates of the path.
sample_row_len(st, gl, pth, cost) ==
  IF pth = None
  THEN <<st[1], st[2], gl[1], gl[2], -1, 0>>
  ELSE <<st[1], st[2], gl[1], gl[2], Len(pth), 1>>

\* Lines 60-75: the row generate_sample returns.
sample_row(st, gl, pth, cost) ==
  IF pth = None
  THEN <<st[1], st[2], gl[1], gl[2], -1, 0>>
  ELSE <<st[1], st[2], gl[1], gl[2], cost, 1>>

(* ------------------------------- search.py ----------------------------- *)
\* Variant: the distance is counted twice.
manhattan_twice(a, b) == 2 * (Abs(a[1] - b[1]) + Abs(a[2] - b[2]))

\* Variant: the squares of the differences are added.
manhattan_sq(a, b) ==
  (a[1] - b[1]) * (a[1] - b[1]) + (a[2] - b[2]) * (a[2] - b[2])

manhattan(a, b) == Abs(a[1] - b[1]) + Abs(a[2] - b[2])

\* Variant: a later element with an equal key replaces the best so far.
RECURSIVE PyMinFrom_last(_, _, _, _)
PyMinFrom_last(seq, i, best, st) ==
  IF i > Len(seq) THEN best
  ELSE IF manhattan(seq[i], st) <= manhattan(best, st)
       THEN PyMinFrom_last(seq, i + 1, seq[i], st)
       ELSE PyMinFrom_last(seq, i + 1, best, st)

\* min(candidates, key=...): the first element whose key is minimal.
RECURSIVE PyMinFrom(_, _, _, _)
PyMinFrom(seq, i, best, st) ==
  IF i > Len(seq) THEN best
  ELSE IF manhattan(seq[i], st) < manhattan(best, st)
       THEN PyMinFrom(seq, i + 1, seq[i], st)
       ELSE PyMinFrom(seq, i + 1, best, st)

PyMin(seq, st) == PyMinFrom(seq, 2, seq[1], st)

\* Variant: the cells above and below the shelf are candidates too.
nearest_aisle_vertical(g, st, gl) ==
  LET gx == gl[1]
      gy == gl[2]
      cand(x, y) == IF 0 <= x /\ x < Width(g) /\ 0 <= y /\ y < Height(g)
                       /\ g[y][x] = 0
                    THEN <<(<<x, y>>)>> ELSE <<>>
      candidates == cand(gx - 1, gy) \o cand(gx + 1, gy)
                    \o cand(gx, gy - 1) \o cand(gx, gy + 1)
  IN IF candidates = <<>> THEN None ELSE PyMin(candidates, st)

\* Variant: the first candidate is taken whatever its distance to start.
nearest_aisle_first(g, st, gl) ==
  LET gx == gl[1]
      gy == gl[2]
      left == IF gx - 1 >= 0 /\ g[gy][gx - 1] = 0
              THEN <<(<<gx - 1, gy>>)>> ELSE <<>>
      right == IF gx + 1 < Width(g) /\ g[gy][gx + 1] = 0
               THEN <<(<<gx + 1, gy>>)>> ELSE <<>>
      candidates == left \o right
  IN IF candidates = <<>> THEN None ELSE candidates[1]

nearest_aisle(g, st, gl) ==
  LET gx == gl[1]
      gy == gl[2]
      width == Width(g)
      left == IF gx - 1 >= 0 /\ g[gy][gx - 1] = 0
              THEN <<(<<gx - 1, gy>>)>> ELSE <<>>
      right == IF gx + 1 < width /\ g[gy][gx + 1] = 0
               THEN <<(<<gx + 1, gy>>)>> ELSE <<>>
      candidates == left \o right
  IN IF candidates = <<>> THEN None ELSE PyMin(candidates, st)

directions == <<(<<0, 1>>), (<<1, 0>>), (<<0, -1>>), (<<-1, 0>>)>>

\* Tuple comparison (f, g, (x, y)) < (f', g', (x', y')) as Python orders tuples.
EntryLess(a, b) ==
  \/ a[1] < b[1]
  \/ a[1] = b[1] /\ a[2] < b[2]
  \/ a[1] = b[1] /\ a[2] = b[2] /\ a[3][1] < b[3][1]
  \/ a[1] = b[1] /\ a[2] = b[2] /\ a[3][1] = b[3][1] /\ a[3][2] < b[3][2]

\* Variant: the heap gives back the entry pushed last.
HeapMinIndex_lifo(h) == Len(h)

\* Variant: entries are compared by (f, g) only and the earliest pushed of
\* the least ones is given back.
HeapMinIndex_stable(h) ==
  CHOOSE i \in 1..Len(h) :
    /\ \A j \in 1..Len(h) :
         ~(h[j][1] < h[i][1] \/ (h[j][1] = h[i][1] /\ h[j][2] < h[i][2]))
    /\ \A j \in 1..(i - 1) : ~(h[j][1] = h[i][1] /\ h[j][2] = h[i][2])

\* Index of the entry heapq.heappop returns: the least entry of the heap.
HeapMinIndex(h) ==
  CHOOSE i \in 1..Len(h) : \A j \in 1..Len(h) : ~EntryLess(h[j], h[i])

RemoveAt(s, i) == SubSeq(s, 1, i - 1) \o SubSeq(s, i + 1, Len(s))

heappush(h, e) == Append(h, e)

\* Variant: the first entry carries the heuristic of start as its f.
InitialEntry_f(st, gl) == <<manhattan(st, gl), 0, st>>

\* Line 81: the entry (0, 0, start) the frontier is set up with, whatever the
\* goal gl is.
InitialEntry(st, gl) == <<0, 0, st>>

\* Variant: the path is left in walk order.
Reverse_skip(s) == s

\* path.reverse()
Reverse(s) == [i \in 1..Len(s) |-> s[Len(s) + 1 - i]]

\* Variant: the cost is the number of coordinates of the path.
path_cost_len(p) == Len(p)

\* Line 149: cost = len(path) - 1
path_cost(p) == Len(p) - 1

\* Variant: the loop never stops on the goal.
GoalReached_never(cur, gl) == FALSE

\* Line 99: current == goal
GoalReached(cur, gl) == cur = gl

\* Line 108: 0 <= nx < width and 0 <= ny < height
InBounds(g, nx, ny) == 0 <= nx /\ nx < Width(g) /\ 0 <= ny /\ ny < Height(g)

\* Variant: the obstacle test never fires.
Blocked_never(g, nx, ny) == FALSE

\* Line 112: grid[ny][nx] == 1
Blocked(g, nx, ny) == g[ny][nx] = 1

\* Variant: a neighbour reached again at the same cost is recorded again.
ShouldUpdate_le(gc, n, new_cost) == n \notin DOMAIN gc \/ new_cost <= gc[n]

\* Line 118: (nx, ny) not in g_cost or new_cost < g_cost[(nx, ny)]
ShouldUpdate(gc, n, new_cost) == n \notin DOMAIN gc \/ new_cost < gc[n]

\* Variant: the test forgets start == goal.
NeverReached_nostart(cf, st, gl) == gl \notin DOMAIN cf

\* Line 127: goal not in came_from and start != goal
NeverReached(cf, st, gl) == gl \notin DOMAIN cf /\ st # gl

\* Line 76: the result for a shelf no aisle gives access to.
NoAccess == [path |-> None, cost |-> inf, expansions |-> 0]

\* Variant: the failure reports cost -1.
Unreachable_minus(exp) == [path |-> None, cost |-> -1, expansions |-> exp]

\* Line 129: the result when the goal was never reached.
Unreachable(exp) == [path |-> None, cost |-> inf, expansions |-> exp]

EmptyDict == <<>>
NoEntry == <<0, 0, <<0, 0>>>>
NoResult == [path |-> None, cost |-> inf, expansions |-> 0]

\* generate_sample is not running.
NoSample == [state |-> "none", row |-> <<>>]

\* is_free has not been called.
NoProbe == [state |-> "none", x |-> 0, y |-> 0, obstacle |-> FALSE,
            value |-> "none"]

\* No GridEnvironment has been constructed.
NoEnv == [state |-> "none", start |-> <<0, 0>>, agent_pos |-> <<0, 0>>,
          goal_pos |-> <<0, 0>>, step_count |-> 0, done |-> FALSE,
          outcome |-> "none", surrounding |-> <<>>]

\* The locals of a call that is not running.
NoCall == [pc |-> "idle", start |-> <<0, 0>>, arg_goal |-> <<0, 0>>,
           goal |-> <<0, 0>>, open_set |-> <<>>, came_from |-> EmptyDict,
           g_cost |-> EmptyDict, expansions |-> 0, current |-> NoEntry,
           di |-> 1, path |-> <<>>, node |-> <<0, 0>>, result |-> NoResult]

(* ------------------ a_star_search on a record of locals ----------------- *)
\* One step of a_star_search(g, c.start, c.arg_goal) whose locals are the
\* record c: the same statements as the actions Resolve .. Return below.
a_star_step(g, c) ==
  CASE c.pc = "resolve" ->
         LET adjusted == nearest_aisle(g, c.start, c.goal)
         IN IF g[c.goal[2]][c.goal[1]] = 1 /\ adjusted = None
            THEN [c EXCEPT !.result = NoAccess, !.pc = "done"]
            ELSE [c EXCEPT
                    !.goal = IF g[c.goal[2]][c.goal[1]] = 1
                             THEN adjusted ELSE c.goal,
                    !.open_set = heappush(<<>>, InitialEntry(c.start,
                         IF g[c.goal[2]][c.goal[1]] = 1
                         THEN adjusted ELSE c.goal)),
                    !.came_from = EmptyDict,
                    !.g_cost = (c.start :> 0),
                    !.expansions = 0,
                    !.pc = "loop"]
    [] c.pc = "loop" ->
         IF c.open_set = <<>>
         THEN [c EXCEPT !.pc = "reconstruct"]
         ELSE LET i == HeapMinIndex(c.open_set)
              IN [c EXCEPT
                    !.current = c.open_set[i],
                    !.open_set = RemoveAt(c.open_set, i),
                    !.expansions = c.expansions + 1,
                    !.pc = IF GoalReached(c.open_set[i][3], c.goal)
                           THEN "reconstruct" ELSE "for",
                    !.di = IF GoalReached(c.open_set[i][3], c.goal)
                           THEN c.di ELSE 1]
    [] c.pc = "for" ->
         LET cur == c.current[3]
             nx == cur[1] + directions[c.di][1]
             ny == cur[2] + directions[c.di][2]
             n == <<nx, ny>>
             new_cost == c.g_cost[cur] + 1
             f_cost == new_cost + manhattan(n, c.goal)
             upd == /\ InBounds(g, nx, ny)
                    /\ ~Blocked(g, nx, ny)
                    /\ ShouldUpdate(c.g_cost, n, new_cost)
         IN [c EXCEPT
               !.g_cost = IF upd THEN (n :> new_cost) @@ c.g_cost
                          ELSE c.g_cost,
               !.open_set = IF upd
                            THEN heappush(c.open_set, <<f_cost, new_cost, n>>)
                            ELSE c.open_set,
               !.came_from = IF upd THEN (n :> cur) @@ c.came_from
                             ELSE c.came_from,
               !.di = IF c.di < Len(directions) THEN c.di + 1 ELSE 1,
               !.pc = IF c.di < Len(directions) THEN "for" ELSE "loop"]
    [] c.pc = "reconstruct" ->
         IF NeverReached(c.came_from, c.start, c.goal)
         THEN [c EXCEPT !.result = Unreachable(c.expansions), !.pc = "done"]
         ELSE IF c.start = c.goal
         THEN [c EXCEPT
                 !.result = [path |-> <<c.start>>, cost |-> 0,
                             expansions |-> c.expansions],
                 !.path = <<>>, !.node = c.goal, !.pc = "done"]
         ELSE [c EXCEPT !.path = <<>>, !.node = c.goal, !.pc = "walk"]
    [] c.pc = "walk" ->
         IF c.node # c.start
         THEN [c EXCEPT !.path = Append(c.path, c.node),
                        !.node = c.came_from[c.node]]
         ELSE LET full == Reverse(Append(c.path, c.start))
              IN [c EXCEPT
                    !.path = full,
                    !.result = [path |-> full, cost |-> path_cost(full),
                                expansions |-> c.expansions],
                    !.pc = "done"]
    [] OTHER -> c

\* The locals at the entry of a_star_search(g, s, t).
a_star_entry(s, t) ==
  [NoCall EXCEPT !.pc = "resolve", !.start = s, !.arg_goal = t, !.goal = t]

\* The call run from c to its return, nothing else running.
RECURSIVE a_star_run(_, _)
a_star_run(g, c) ==
  IF c.pc = "done" THEN c.result ELSE a_star_run(g, a_star_step(g, c))

\* What a_star_search(g, s, t) returns when it runs alone.
a_star_alone(g, s, t) == a_star_run(g, a_star_entry(s, t))

(* ----------------------------- the caller ------------------------------ *)
Init ==
  /\ \E w \in 1..MaxW, h \in 1..MaxH :
       /\ grid = create_grid(w, h)
       /\ dims = <<w, h>>
  /\ placed = {}
  /\ raised = "none"
  /\ aisle_rows = <<>>
  /\ popped = <<>>
  /\ sample = NoSample
  /\ other = NoCall
  /\ pc = "idle"
  /\ start = <<0, 0>>
  /\ arg_goal = <<0, 0>>
  /\ goal = <<0, 0>>
  /\ open_set = <<>>
  /\ came_from = EmptyDict
  /\ g_cost = EmptyDict
  /\ expansions = 0
  /\ current = NoEntry
  /\ di = 1
  /\ path = <<>>
  /\ node = <<0, 0>>
  /\ result = NoResult
  /\ probe = NoProbe
  /\ env = NoEnv

\* The owner of the grid places a shelf (in range) between searches.
AddObstacle ==
  /\ pc = "idle"
  /\ Cardinality(Shelves(grid)) < MaxShelves
  /\ \E p \in Cells(grid) :
       /\ ~IsShelf(grid, p)
       /\ grid' = add_obstacle(grid, p[1], p[2])
       /\ placed' = placed \cup {p}
  /\ UNCHANGED <<pc, start, arg_goal, goal, open_set, came_from, g_cost,
                 expansions, current, di, path, node, result>>
  /\ UNCHANGED <<popped, sample, dims, raised, aisle_rows, other, rest>>

\* a_star_search(grid, s, t) is called with in-bounds s and t.
Call ==
  /\ pc = "idle"
  /\ \E s \in Cells(grid), t \in Cells(grid) :
       /\ start' = s
       /\ arg_goal' = t
       /\ goal' = t
  /\ pc' = "resolve"
  /\ UNCHANGED <<grid, open_set, came_from, g_cost, expansions, current, di,
                 path, node, result>>
  /\ UNCHANGED <<popped, sample, builder, other, rest>>

(* --------------------------- a_star_search ----------------------------- *)
\* Lines 68-92: goal resolution and initialisation of the search state.
Resolve ==
  /\ pc = "resolve"
  /\ LET adjusted == nearest_aisle(grid, start, goal)
     IN IF grid[goal[2]][goal[1]] = 1 /\ adjusted = None
        THEN /\ result' = NoAccess
             /\ pc' = "done"
             /\ UNCHANGED <<goal, open_set, came_from, g_cost, expansions>>
        ELSE /\ goal' = IF grid[goal[2]][goal[1]] = 1 THEN adjusted ELSE goal
             /\ open_set' = heappush(<<>>, InitialEntry(start, goal'))
             /\ came_from' = EmptyDict
             /\ g_cost' = (start :> 0)
             /\ expansions' = 0
             /\ pc' = "loop"
             /\ UNCHANGED result
  /\ UNCHANGED <<grid, start, arg_goal, current, di, path, node>>
  /\ UNCHANGED <<popped, sample, builder, other, rest>>

\* Variant: the counter is incremented after the goal test, so the pop of
\* the goal is not counted.
Pop_uncounted ==
  /\ pc = "loop"
  /\ open_set # <<>>
  /\ LET i == HeapMinIndex(open_set)
     IN /\ current' = open_set[i]
        /\ open_set' = RemoveAt(open_set, i)
        /\ IF GoalReached(open_set[i][3], goal)
           THEN pc' = "reconstruct" /\ UNCHANGED <<di, expansions>>
           ELSE pc' = "for" /\ di' = 1 /\ expansions' = expansions + 1
  /\ UNCHANGED <<grid, start, arg_goal, goal, came_from, g_cost, path, node,
                 result>>
  /\ popped' = Append(popped, open_set[HeapMinIndex(open_set)][3])
  /\ UNCHANGED <<sample, builder, other, rest>>

\* Lines 94-100: one heappop; leaves the loop when the goal is popped.
Pop ==
  /\ pc = "loop"
  /\ open_set # <<>>
  /\ LET i == HeapMinIndex(open_set)
     IN /\ current' = open_set[i]
        /\ open_set' = RemoveAt(open_set, i)
        /\ expansions' = expansions + 1
        /\ IF GoalReached(open_set[i][3], goal)
           THEN pc' = "reconstruct" /\ UNCHANGED di
           ELSE pc' = "for" /\ di' = 1
  /\ UNCHANGED <<grid, start, arg_goal, goal, came_from, g_cost, path, node,
                 result>>
  /\ popped' = Append(popped, open_set[HeapMinIndex(open_set)][3])
  /\ UNCHANGED <<sample, builder, other, rest>>

\* Line 94: the while condition fails on an empty heap.
Exhausted ==
  /\ pc = "loop"
  /\ open_set = <<>>
  /\ pc' = "reconstruct"
  /\ UNCHANGED <<grid, start, arg_goal, goal, open_set, came_from, g_cost,
                 expansions, current, di, path, node, result>>
  /\ UNCHANGED <<popped, sample, builder, other, rest>>

\* Variant: the cell being expanded is marked as visited in the grid itself.
Neighbour_marks ==
  /\ pc = "for"
  /\ LET cur == current[3]
         nx == cur[1] + directions[di][1]
         ny == cur[2] + directions[di][2]
         n == <<nx, ny>>
         new_cost == g_cost[cur] + 1
         f_cost == new_cost + manhattan(n, goal)
     IN /\ grid' = [grid EXCEPT ![cur[2]][cur[1]] = 1]
        /\ IF ~InBounds(grid, nx, ny)
           THEN UNCHANGED <<open_set, came_from, g_cost>>
           ELSE IF Blocked(grid, nx, ny)
           THEN UNCHANGED <<open_set, came_from, g_cost>>
           ELSE IF ShouldUpdate(g_cost, n, new_cost)
           THEN /\ g_cost' = (n :> new_cost) @@ g_cost
                /\ open_set' = heappush(open_set, <<f_cost, new_cost, n>>)
                /\ came_from' = (n :> cur) @@ came_from
           ELSE UNCHANGED <<open_set, came_from, g_cost>>
  /\ IF di < Len(directions)
     THEN di' = di + 1 /\ pc' = "for"
     ELSE di' = 1 /\ pc' = "loop"
  /\ UNCHANGED <<start, arg_goal, goal, expansions, current, path, node,
                 result>>
  /\ UNCHANGED <<popped, sample, builder, other, rest>>

\* Variant: after the last direction the for loop starts over.
Neighbour_again ==
  /\ pc = "for"
  /\ LET cur == current[3]
         nx == cur[1] + directions[di][1]
         ny == cur[2] + directions[di][2]
         n == <<nx, ny>>
         new_cost == g_cost[cur] + 1
         f_cost == new_cost + manhattan(n, goal)
     IN IF ~InBounds(grid, nx, ny)
        THEN UNCHANGED <<open_set, came_from, g_cost>>
        ELSE IF Blocked(grid, nx, ny)
        THEN UNCHANGED <<open_set, came_from, g_cost>>
        ELSE IF ShouldUpdate(g_cost, n, new_cost)
        THEN /\ g_cost' = (n :> new_cost) @@ g_cost
             /\ open_set' = heappush(open_set, <<f_cost, new_cost, n>>)
             /\ came_from' = (n :> cur) @@ came_from
        ELSE UNCHANGED <<open_set, came_from, g_cost>>
  /\ di' = IF di < Len(directions) THEN di + 1 ELSE 1
  /\ pc' = "for"
  /\ UNCHANGED <<grid, start, arg_goal, goal, expansions, current, path, node,
                 result>>
  /\ UNCHANGED <<popped, sample, builder, other, rest>>

\* Variant: a neighbour reached again at its recorded cost gets one more
\* frontier entry, its g and back-pointer left as they are.
Neighbour_repush ==
  /\ pc = "for"
  /\ LET cur == current[3]
         nx == cur[1] + directions[di][1]
         ny == cur[2] + directions[di][2]
         n == <<nx, ny>>
         new_cost == g_cost[cur] + 1
         f_cost == new_cost + manhattan(n, goal)
     IN IF ~InBounds(grid, nx, ny)
        THEN UNCHANGED <<open_set, came_from, g_cost>>
        ELSE IF Blocked(grid, nx, ny)
        THEN UNCHANGED <<open_set, came_from, g_cost>>
        ELSE IF ShouldUpdate(g_cost, n, new_cost)
        THEN /\ g_cost' = (n :> new_cost) @@ g_cost
             /\ open_set' = heappush(open_set, <<f_cost, new_cost, n>>)
             /\ came_from' = (n :> cur) @@ came_from
        ELSE IF new_cost = g_cost[n]
        THEN /\ open_set' = heappush(open_set, <<f_cost, new_cost, n>>)
             /\ UNCHANGED <<came_from, g_cost>>
        ELSE UNCHANGED <<open_set, came_from, g_cost>>
  /\ IF di < Len(directions)
     THEN di' = di + 1 /\ pc' = "for"
     ELSE di' = 1 /\ pc' = "loop"
  /\ UNCHANGED <<grid, start, arg_goal, goal, expansions, current, path, node,
                 result>>
  /\ UNCHANGED <<popped, sample, builder, other, rest>>

\* Lines 104-122: one iteration of the for loop over directions.
Neighbour ==
  /\ pc = "for"
  /\ LET cur == current[3]
         nx == cur[1] + directions[di][1]
         ny == cur[2] + directions[di][2]
         n == <<nx, ny>>
         new_cost == g_cost[cur] + 1
         f_cost == new_cost + manhattan(n, goal)
     IN IF ~InBounds(grid, nx, ny)
        THEN UNCHANGED <<open_set, came_from, g_cost>>
        ELSE IF Blocked(grid, nx, ny)
        THEN UNCHANGED <<open_set, came_from, g_cost>>
        ELSE IF ShouldUpdate(g_cost, n, new_cost)
        THEN /\ g_cost' = (n :> new_cost) @@ g_cost
             /\ open_set' = heappush(open_set, <<f_cost, new_cost, n>>)
             /\ came_from' = (n :> cur) @@ came_from
        ELSE UNCHANGED <<open_set, came_from, g_cost>>
  /\ IF di < Len(directions)
     THEN di' = di + 1 /\ pc' = "for"
     ELSE di' = 1 /\ pc' = "loop"
  /\ UNCHANGED <<grid, start, arg_goal, goal, expansions, current, path, node,
                 result>>
  /\ UNCHANGED <<popped, sample, builder, other, rest>>

\* Lines 126-137: the goal was never reached, or start is the goal, or the
\* back-pointer walk begins.
Reconstruct ==
  /\ pc = "reconstruct"
  /\ IF NeverReached(came_from, start, goal)
     THEN /\ result' = Unreachable(expansions)
          /\ pc' = "done"
          /\ UNCHANGED <<path, node>>
     ELSE IF start = goal
     THEN /\ result' = [path |-> <<start>>, cost |-> 0,
                        expansions |-> expansions]
          /\ pc' = "done"
          /\ path' = <<>>
          /\ node' = goal
     ELSE /\ path' = <<>>
          /\ node' = goal
          /\ pc' = "walk"
          /\ UNCHANGED result
  /\ UNCHANGED <<grid, start, arg_goal, goal, open_set, came_from, g_cost,
                 expansions, current, di>>
  /\ UNCHANGED <<popped, sample, builder, other, rest>>

\* Lines 139-141: one iteration of the back-pointer walk.
WalkStep ==
  /\ pc = "walk"
  /\ node # start
  /\ path' = Append(path, node)
  /\ node' = came_from[node]
  /\ UNCHANGED <<grid, pc, start, arg_goal, goal, open_set, came_from, g_cost,
                 expansions, current, di, result>>
  /\ UNCHANGED <<popped, sample, builder, other, rest>>

\* Lines 143-151: the walk reached start; the path is reversed and returned.
Return ==
  /\ pc = "walk"
  /\ node = start
  /\ LET full == Reverse(Append(path, start))
     IN /\ path' = full
        /\ result' = [path |-> full, cost |-> path_cost(full),
                      expansions |-> expansions]
  /\ pc' = "done"
  /\ UNCHANGED <<grid, start, arg_goal, goal, open_set, came_from, g_cost,
                 expansions, current, di, node>>
  /\ UNCHANGED <<popped, sample, builder, other, rest>>

\* The call has returned: its working memory is discarded.
Finish ==
  /\ pc = "done"
  /\ sample.state # "pending"
  /\ pc' = "idle"
  /\ start' = <<0, 0>>
  /\ arg_goal' = <<0, 0>>
  /\ goal' = <<0, 0>>
  /\ open_set' = <<>>
  /\ came_from' = EmptyDict
  /\ g_cost' = EmptyDict
  /\ expansions' = 0
  /\ current' = NoEntry
  /\ di' = 1
  /\ path' = <<>>
  /\ node' = <<0, 0>>
  /\ result' = NoResult
  /\ UNCHANGED grid
  /\ popped' = <<>>
  /\ sample' = NoSample
  /\ UNCHANGED <<builder, other, rest>>

(* ---------------------- a second, concurrent call ----------------------- *)
\* build(width, height, shelves): create_grid, then add_obstacle per shelf.
RECURSIVE PlaceAll(_, _)
PlaceAll(g, S) ==
  IF S = {} THEN g
  ELSE LET p == CHOOSE q \in S : TRUE
       IN PlaceAll(add_obstacle(g, p[1], p[2]), S \ {p})

\* A second thread calls a_star_search on the same grid.
OtherCall ==
  /\ other.pc = "idle"
  /\ \E s \in Cells(grid), t \in Cells(grid) : other' = a_star_entry(s, t)
  /\ UNCHANGED <<grid, pc, start, arg_goal, goal, open_set, came_from, g_cost,
                 expansions, current, di, path, node, result>>
  /\ UNCHANGED <<popped, sample, builder, rest>>

\* Variant: g_cost is one module-level dict that the calls write into.
OtherStep_shared ==
  /\ other.pc \notin {"idle", "done"}
  /\ LET n == a_star_step(grid, other)
     IN other' = IF other.pc = "resolve" /\ n.pc = "loop"
                 THEN [n EXCEPT !.g_cost = (other.start :> 0) @@ g_cost]
                 ELSE n
  /\ UNCHANGED <<grid, pc, start, arg_goal, goal, open_set, came_from, g_cost,
                 expansions, current, di, path, node, result>>
  /\ UNCHANGED <<popped, sample, builder, rest>>

\* The second call takes one step on its own locals.
OtherStep ==
  /\ other.pc \notin {"idle", "done"}
  /\ other' = a_star_step(grid, other)
  /\ UNCHANGED <<grid, pc, start, arg_goal, goal, open_set, came_from, g_cost,
                 expansions, current, di, path, node, result>>
  /\ UNCHANGED <<popped, sample, builder, rest>>

\* The second call has returned: its locals are discarded.
OtherFinish ==
  /\ other.pc = "done"
  /\ other' = NoCall
  /\ UNCHANGED <<grid, pc, start, arg_goal, goal, open_set, came_from, g_cost,
                 expansions, current, di, path, node, result>>
  /\ UNCHANGED <<popped, sample, builder, rest>>

\* A grid built once; both callers are idle.
InitPar ==
  /\ \E w \in 1..ParW, h \in 1..ParH :
       \E S \in SUBSET ((0..(w - 1)) \X (0..(h - 1))) :
         /\ Cardinality(S) <= ParShelves
         /\ grid = PlaceAll(create_grid(w, h), S)
         /\ dims = <<w, h>>
         /\ placed = S
  /\ raised = "none"
  /\ aisle_rows = <<>>
  /\ popped = <<>>
  /\ sample = NoSample
  /\ other = NoCall
  /\ pc = "idle"
  /\ start = <<0, 0>>
  /\ arg_goal = <<0, 0>>
  /\ goal = <<0, 0>>
  /\ open_set = <<>>
  /\ came_from = EmptyDict
  /\ g_cost = EmptyDict
  /\ expansions = 0
  /\ current = NoEntry
  /\ di = 1
  /\ path = <<>>
  /\ node = <<0, 0>>
  /\ result = NoResult
  /\ probe = NoProbe
  /\ env = NoEnv

NextPar ==
  \/ Call
  \/ Resolve
  \/ Pop
  \/ Exhausted
  \/ Neighbour
  \/ Reconstruct
  \/ WalkStep
  \/ Return
  \/ Finish
  \/ OtherCall
  \/ OtherStep
  \/ OtherFinish

SpecPar == InitPar /\ [][NextPar]_vars

(* ---------------------------- generate_sample -------------------------- *)
\* Lines 55-58: start drawn from the aisles, goal from the shelves, and
\* a_star_search(grid, start, goal) is called.
SampleCall ==
  /\ pc = "idle"
  /\ \E s \in Aisles(grid), t \in Shelves(grid) :
       /\ start' = s
       /\ arg_goal' = t
       /\ goal' = t
  /\ pc' = "resolve"
  /\ sample' = [state |-> "pending", row |-> <<>>]
  /\ UNCHANGED <<grid, open_set, came_from, g_cost, expansions, current, di,
                 path, node, result>>
  /\ UNCHANGED <<popped, builder, other, rest>>

\* Lines 60-75: the row is built from the result of the call.
RecordSample ==
  /\ pc = "done"
  /\ sample.state = "pending"
  /\ sample' = [state |-> "done",
                row |-> sample_row(start, arg_goal, result.path, result.cost)]
  /\ UNCHANGED <<grid, pc, start, arg_goal, goal, open_set, came_from, g_cost,
                 expansions, current, di, path, node, result>>
  /\ UNCHANGED <<popped, builder, other, rest>>

(* --------------------------- generated warehouses ----------------------- *)
\* grid = generate_warehouse(w, h, a1, a2, a3); a row number equal to h
\* stands for one outside range(h).
InitWh ==
  /\ \E w \in 1..WhW, h \in 1..WhH :
       \E a1 \in 0..h, a2 \in 0..h, a3 \in 0..h :
         /\ a1 <= a2 /\ a2 <= a3
         /\ grid = generate_warehouse(w, h, a1, a2, a3)
         /\ dims = <<w, h>>
         /\ aisle_rows = <<a1, a2, a3>>
         /\ placed = {p \in (0..(w - 1)) \X (0..(h - 1)) : IsShelfColumn(p[1])}
  /\ raised = "none"
  /\ popped = <<>>
  /\ sample = NoSample
  /\ other = NoCall
  /\ pc = "idle"
  /\ start = <<0, 0>>
  /\ arg_goal = <<0, 0>>
  /\ goal = <<0, 0>>
  /\ open_set = <<>>
  /\ came_from = EmptyDict
  /\ g_cost = EmptyDict
  /\ expansions = 0
  /\ current = NoEntry
  /\ di = 1
  /\ path = <<>>
  /\ node = <<0, 0>>
  /\ result = NoResult
  /\ probe = NoProbe
  /\ env = NoEnv

(* ------------------------- the default warehouse ------------------------ *)
\* grid = generate_warehouse() with its default arguments.
InitDefault ==
  /\ grid = generate_warehouse(DefaultW, DefaultH, DefaultA1, DefaultA2,
                               DefaultA3)
  /\ dims = <<DefaultW, DefaultH>>
  /\ aisle_rows = <<DefaultA1, DefaultA2, DefaultA3>>
  /\ placed = {p \in (0..(DefaultW - 1)) \X (0..(DefaultH - 1)) :
                 IsShelfColumn(p[1])}
  /\ raised = "none"
  /\ popped = <<>>
  /\ sample = NoSample
  /\ other = NoCall
  /\ pc = "idle"
  /\ start = <<0, 0>>
  /\ arg_goal = <<0, 0>>
  /\ goal = <<0, 0>>
  /\ open_set = <<>>
  /\ came_from = EmptyDict
  /\ g_cost = EmptyDict
  /\ expansions = 0
  /\ current = NoEntry
  /\ di = 1
  /\ path = <<>>
  /\ node = <<0, 0>>
  /\ result = NoResult
  /\ probe = NoProbe
  /\ env = NoEnv

\* a_star_search(grid, (0, 0), (7, 6)) is called.
DefaultCall ==
  /\ pc = "idle"
  /\ start' = <<0, 0>>
  /\ arg_goal' = <<7, 6>>
  /\ goal' = <<7, 6>>
  /\ pc' = "resolve"
  /\ UNCHANGED <<grid, open_set, came_from, g_cost, expansions, current, di,
                 path, node, result>>
  /\ UNCHANGED <<popped, sample, builder, other, rest>>

NextDefault ==
  \/ DefaultCall
  \/ Resolve
  \/ Pop
  \/ Neighbour
  \/ Reconstruct
  \/ WalkStep
  \/ Return
  \/ Finish

SpecDefault == InitDefault /\ [][NextDefault]_vars

(* ------------------- add_obstacle with any coordinates ------------------ *)
\* A Python list of length n accepts the index i when -n <= i < n.
IndexOK(n, i) == -n <= i /\ i < n

\* The position a valid Python index denotes: negative ones count from the end.
IndexPos(n, i) == IF i < 0 THEN n + i ELSE i

\* add_obstacle(grid, x, y) for any integers x, y: grid[y][x] = 1 either
\* raises IndexError or assigns the cell the Python indices denote.
PlaceShelf ==
  /\ pc = "idle"
  /\ Cardinality(placed) < MaxShelves
  /\ \E x \in (-(dims[1] + 1))..(dims[1] + 1),
        y \in (-(dims[2] + 1))..(dims[2] + 1) :
       /\ placed' = placed \cup {<<x, y>>}
       /\ IF IndexOK(Height(grid), y) /\ IndexOK(Width(grid), x)
          THEN /\ grid' = add_obstacle(grid, IndexPos(Width(grid), x),
                                       IndexPos(Height(grid), y))
               /\ raised' = "none"
          ELSE /\ grid' = grid
               /\ raised' = "IndexError"
  /\ UNCHANGED <<pc, start, arg_goal, goal, open_set, came_from, g_cost,
                 expansions, current, di, path, node, result>>
  /\ UNCHANGED <<popped, sample, dims, aisle_rows, other, rest>>

NextBuild == PlaceShelf

SpecBuild == Init /\ [][NextBuild]_vars

(* ---------------------- dqn_model.py GridEnvironment -------------------- *)
\* Positions of the environment are (row, col): <<r, c>> names grid[r][c].
\* Line 138: the four moves up, down, left, right.
env_actions == <<(<<-1, 0>>), (<<1, 0>>), (<<0, -1>>), (<<0, 1>>)>>

\* Line 240: the eight offsets _get_surrounding looks at, in its order.
around == <<(<<-1, -1>>), (<<-1, 0>>), (<<-1, 1>>), (<<0, -1>>),
            (<<0, 1>>), (<<1, -1>>), (<<1, 0>>), (<<1, 1>>)>>

\* Lines 256-267: _is_valid, rows and columns being the shape of the grid.
is_valid(g, pos) ==
  0 <= pos[1] /\ pos[1] < Height(g) /\ 0 <= pos[2] /\ pos[2] < Width(g)

\* Lines 224-254: _get_surrounding.  Line 248 appends
\* 0.0 if self.grid[new_pos[0], new_pos[1]] != 0 else 1.0 for a cell inside
\* the grid and line 251 appends 1.0 for a cell outside it.
get_surrounding(g, pos) ==
  [k \in 1..Len(around) |->
     LET new_pos == <<pos[1] + around[k][1], pos[2] + around[k][2]>>
     IN IF is_valid(g, new_pos)
        THEN IF g[new_pos[1]][new_pos[2]] # 0 THEN 0 ELSE 1
        ELSE 1]

\* The cells of g in the order _find_target scans them: row by row.
ScanOrder(g) ==
  [n \in 1..(Height(g) * Width(g)) |->
     <<(n - 1) \div Width(g), (n - 1) % Width(g)>>]

\* Lines 160-180 with the fallback of lines 125-128: the first cell holding
\* target_item, or start when no cell holds it.
find_target(g, target_item, st) ==
  LET order == ScanOrder(g)
      hits == {n \in 1..Len(order) : g[order[n][1]][order[n][2]] = target_item}
  IN IF hits = {} THEN st
     ELSE order[CHOOSE n \in hits : \A m \in hits : n <= m]

\* The walkable cells of g as (row, col) positions.
Walkable(g) ==
  {pos \in (0..(Height(g) - 1)) \X (0..(Width(g) - 1)) : g[pos[1]][pos[2]] = 0}

\* Lines 102-145: GridEnvironment(grid, start, target_item).
EnvCreate ==
  /\ env.state = "none"
  /\ \E st \in Walkable(grid), target_item \in 0..2 :
       env' = [state |-> "ready", start |-> st, agent_pos |-> st,
               goal_pos |-> find_target(grid, target_item, st),
               step_count |-> 0, done |-> FALSE, outcome |-> "created",
               surrounding |-> <<>>]
  /\ UNCHANGED <<grid, pc, start, arg_goal, goal, open_set, came_from, g_cost,
                 expansions, current, di, path, node, result>>
  /\ UNCHANGED <<popped, sample, builder, other, probe>>

\* Lines 147-158: set_episode_target(new_start, new_target_pos).
EnvSetEpisode ==
  /\ env.state = "ready"
  /\ env.outcome = "created"
  /\ \E st \in Walkable(grid), tg \in Walkable(grid) :
       env' = [env EXCEPT !.start = st, !.agent_pos = st, !.goal_pos = tg,
                          !.step_count = 0, !.outcome = "retargeted"]
  /\ UNCHANGED <<grid, pc, start, arg_goal, goal, open_set, came_from, g_cost,
                 expansions, current, di, path, node, result>>
  /\ UNCHANGED <<popped, sample, builder, other, probe>>

\* Lines 182-196: reset() puts the agent on start, clears the counter and
\* returns the state, whose last eight values are _get_surrounding().  The
\* caller starts a new episode with done = False (train.py line 208).
EnvReset ==
  /\ env.state = "ready"
  /\ env.outcome # "reset"
  /\ env' = [env EXCEPT !.agent_pos = env.start, !.step_count = 0,
                        !.done = FALSE, !.outcome = "reset",
                        !.surrounding = get_surrounding(grid, env.start)]
  /\ UNCHANGED <<grid, pc, start, arg_goal, goal, open_set, came_from, g_cost,
                 expansions, current, di, path, node, result>>
  /\ UNCHANGED <<popped, sample, builder, other, probe>>

\* Lines 269-336: step(action), called while the episode is not done
\* (train.py line 213).  outcome names the branch taken; the numeric reward
\* is not kept.
EnvStep ==
  /\ env.state = "ready"
  /\ env.outcome \notin {"created", "retargeted"}
  /\ ~env.done
  /\ env.step_count < max_steps + MaxOver
  /\ \E action \in 1..Len(env_actions) :
       LET new_pos == <<env.agent_pos[1] + env_actions[action][1],
                        env.agent_pos[2] + env_actions[action][2]>>
           count == env.step_count + 1
       IN env' =
            IF ~is_valid(grid, new_pos)
            THEN [env EXCEPT
                    !.step_count = count, !.done = FALSE,
                    !.outcome = "out_of_bounds",
                    !.surrounding = get_surrounding(grid, env.agent_pos)]
            ELSE IF grid[new_pos[1]][new_pos[2]] = 1
            THEN [env EXCEPT
                    !.step_count = count, !.done = FALSE,
                    !.outcome = "wall",
                    !.surrounding = get_surrounding(grid, env.agent_pos)]
            ELSE IF new_pos = env.goal_pos
            THEN [env EXCEPT
                    !.step_count = count, !.agent_pos = new_pos,
                    !.done = TRUE, !.outcome = "goal",
                    !.surrounding = get_surrounding(grid, new_pos)]
            ELSE [env EXCEPT
                    !.step_count = count, !.agent_pos = new_pos,
                    !.done = (count >= max_steps), !.outcome = "moved",
                    !.surrounding = get_surrounding(grid, new_pos)]
  /\ UNCHANGED <<grid, pc, start, arg_goal, goal, open_set, came_from, g_cost,
                 expansions, current, di, path, node, result>>
  /\ UNCHANGED <<popped, sample, builder, other, probe>>

\* A grid with at most EnvWalls walls; no environment yet.
InitEnv ==
  /\ \E w \in 1..EnvW, h \in 1..EnvH :
       \E S \in SUBSET ((0..(w - 1)) \X (0..(h - 1))) :
         /\ Cardinality(S) <= EnvWalls
         /\ grid = PlaceAll(create_grid(w, h), S)
         /\ dims = <<w, h>>
         /\ placed = S
  /\ raised = "none"
  /\ aisle_rows = <<>>
  /\ popped = <<>>
  /\ sample = NoSample
  /\ other = NoCall
  /\ pc = "idle"
  /\ start = <<0, 0>>
  /\ arg_goal = <<0, 0>>
  /\ goal = <<0, 0>>
  /\ open_set = <<>>
  /\ came_from = EmptyDict
  /\ g_cost = EmptyDict
  /\ expansions = 0
  /\ current = NoEntry
  /\ di = 1
  /\ path = <<>>
  /\ node = <<0, 0>>
  /\ result = NoResult
  /\ probe = NoProbe
  /\ env = NoEnv

NextEnv ==
  \/ EnvCreate
  \/ EnvSetEpisode
  \/ EnvReset
  \/ EnvStep

SpecEnv == InitEnv /\ [][NextEnv]_vars

(* ------------------------------- is_free -------------------------------- *)
\* setGrid.py line 59 and grid.py line 13: return grid[x][y] == 0.  The first
\* index picks a row and the second a cell of it; an index no list position
\* answers to raises IndexError.
is_free(g, x, y) ==
  IF IndexOK(Height(g), x) /\ IndexOK(Width(g), y)
  THEN IF g[IndexPos(Height(g), x)][IndexPos(Width(g), y)] = 0
       THEN "True" ELSE "False"
  ELSE "IndexError"

\* is_free(grid, x, y) is called with an in-range (x, y); obstacle records
\* whether add_obstacle had been called with that (x, y) before.
IsFreeCall ==
  /\ pc = "idle"
  /\ \E x \in 0..(dims[1] - 1), y \in 0..(dims[2] - 1) :
       probe' = [state |-> "done", x |-> x, y |-> y,
                 obstacle |-> (<<x, y>> \in placed),
                 value |-> is_free(grid, x, y)]
  /\ UNCHANGED <<grid, pc, start, arg_goal, goal, open_set, came_from, g_cost,
                 expansions, current, di, path, node, result>>
  /\ UNCHANGED <<popped, sample, builder, other, env>>

NextFree ==
  \/ AddObstacle
  \/ IsFreeCall

SpecFree == Init /\ [][NextFree]_vars

Next ==
  \/ AddObstacle
  \/ Call
  \/ SampleCall
  \/ RecordSample
  \/ Resolve
  \/ Pop
  \/ Exhausted
  \/ Neighbour
  \/ Reconstruct
  \/ WalkStep
  \/ Return
  \/ Finish

Spec == Init /\ [][Next]_vars

\* A step of a running a_star_search call.
SearchStep ==
  \/ Resolve
  \/ Pop
  \/ Exhausted
  \/ Neighbour
  \/ Reconstruct
  \/ WalkStep
  \/ Return

\* The call is synchronous: once entered it keeps taking its steps.
SpecFair == Spec /\ WF_vars(SearchStep)

NextWh ==
  \/ SampleCall
  \/ Resolve
  \/ Pop
  \/ Exhausted
  \/ Neighbour
  \/ Reconstruct
  \/ WalkStep
  \/ Return
  \/ RecordSample
  \/ Finish

SpecWh == InitWh /\ [][NextWh]_vars

(* ------------------------ reference definitions ------------------------ *)
\* |ax - bx| + |ay - by|
L1(a, b) ==
  (IF a[1] < b[1] THEN b[1] - a[1] ELSE a[1] - b[1])
  + (IF a[2] < b[2] THEN b[2] - a[2] ELSE a[2] - b[2])

AisleCells(g) == {p \in Cells(g) : g[p[2]][p[1]] = 0}

\* Breadth-first search from the cells in frontier, stepping onto aisle cells
\* only; the number of layers until t appears, -1 when it never does.
RECURSIVE BFS(_, _, _, _, _)
BFS(g, frontier, seen, t, d) ==
  IF t \in frontier THEN d
  ELSE IF frontier = {} THEN -1
  ELSE LET nxt == {q \in AisleCells(g) \ seen :
                     \E p \in frontier : L1(p, q) = 1}
       IN BFS(g, nxt, seen \cup nxt, t, d + 1)

\* Shortest 4-connected distance from s to t over aisle cells, -1 if none.
AisleDist(g, s, t) == BFS(g, {s}, {s}, t, 0)

Returned == pc = "done"
StartOnAisle == grid[start[2]][start[1]] = 0
GoalOnAisle == grid[arg_goal[2]][arg_goal[1]] = 0
GoalOnShelf == grid[arg_goal[2]][arg_goal[1]] = 1

\* The call got past goal resolution and set up its search state.
Searched == pc \notin {"idle", "resolve"} /\ start \in DOMAIN g_cost

\* The cells left and right of the requested goal.
LeftOfGoal == <<arg_goal[1] - 1, arg_goal[2]>>
RightOfGoal == <<arg_goal[1] + 1, arg_goal[2]>>
LeftIsAisle == LeftOfGoal \in AisleCells(grid)
RightIsAisle == RightOfGoal \in AisleCells(grid)

\* The left or right aisle neighbour nearer to start, left on a tie.
NearerSide ==
  IF LeftIsAisle /\ RightIsAisle
  THEN IF L1(LeftOfGoal, start) <= L1(RightOfGoal, start)
       THEN LeftOfGoal ELSE RightOfGoal
  ELSE IF LeftIsAisle THEN LeftOfGoal ELSE RightOfGoal

(* -------------------------------- claims ------------------------------- *)
\* C1: for start and goal both on aisle cells and joined by an aisle path,
\* the returned path has cost len(path) - 1 equal to the breadth-first
\* shortest aisle distance from start to goal.
C1_ShortestPath ==
  (Returned /\ StartOnAisle /\ GoalOnAisle
     /\ AisleDist(grid, start, arg_goal) >= 0)
  => /\ result.path # None
     /\ result.cost = AisleDist(grid, start, arg_goal)
     /\ Len(result.path) - 1 = AisleDist(grid, start, arg_goal)

\* A search that had to go round a shelf: the shortest distance is longer
\* than the Manhattan distance.
C1_Witness ==
  /\ Returned /\ StartOnAisle /\ GoalOnAisle
  /\ AisleDist(grid, start, arg_goal) > L1(start, arg_goal)
  /\ result.path # None

\* C2: a returned path starts with start, ends with the resolved goal (the
\* goal itself when it is an aisle, else the left or right aisle neighbour
\* substituted for the shelf), repeats no coordinate and moves by one
\* cardinal unit step at a time.
C2_PathWellFormed ==
  (Returned /\ result.path # None)
  => LET pth == result.path
     IN /\ pth[1] = start
        /\ pth[Len(pth)] = goal
        /\ GoalOnAisle => goal = arg_goal
        /\ GoalOnShelf =>
             /\ goal \in AisleCells(grid)
             /\ goal[2] = arg_goal[2]
             /\ goal[1] \in {arg_goal[1] - 1, arg_goal[1] + 1}
        /\ \A i, j \in 1..Len(pth) : i # j => pth[i] # pth[j]
        /\ \A i \in 1..(Len(pth) - 1) : L1(pth[i], pth[i + 1]) = 1

\* A path of several steps to the aisle substituted for a shelf goal.
C2_Witness ==
  /\ Returned /\ GoalOnShelf
  /\ result.path # None
  /\ Len(result.path) >= 4

\* C3: for a start on an aisle, every coordinate of a returned path is inside
\* the grid and is an aisle cell.
C3_PathOnAisles ==
  (Returned /\ StartOnAisle /\ result.path # None)
  => \A i \in 1..Len(result.path) :
       /\ result.path[i] \in Cells(grid)
       /\ grid[result.path[i][2]][result.path[i][1]] = 0

\* A returned path in a grid with shelves that is longer than the straight
\* route, so a shelf lay in the way.
C3_Witness ==
  /\ Returned /\ StartOnAisle
  /\ result.path # None
  /\ Cardinality(Shelves(grid)) = MaxShelves
  /\ Len(result.path) - 1 > L1(start, goal)

\* C4: a_star_search(grid, p, p) for an aisle cell p returns the path [p]
\* with cost 0.
C4_StartIsGoal ==
  (Returned /\ StartOnAisle /\ arg_goal = start)
  => /\ result.path = <<start>>
     /\ result.cost = 0

\* Such a call has returned, for a p other than the origin.
C4_Witness ==
  /\ Returned /\ StartOnAisle /\ arg_goal = start
  /\ start # <<0, 0>>
  /\ result.path = <<start>>

\* C5 (as stated): whenever start equals the resolved goal nothing is popped
\* from the frontier and the result reports expansions = 0.
C5_NoPop ==
  (Searched /\ start = goal)
  => /\ expansions = 0
     /\ Returned => result.expansions = 0

\* C5 (amended): whenever start equals the resolved goal the loop is entered
\* once: the start entry is popped, the loop is left on that pop with no
\* neighbour examined and no back-pointer walk, and the result is path
\* [start], cost 0, expansions 1.
C5_OnePop ==
  (Searched /\ start = goal)
  => /\ pc \notin {"for", "walk"}
     /\ expansions <= 1
     /\ came_from = EmptyDict
     /\ Returned => result = [path |-> <<start>>, cost |-> 0,
                              expansions |-> 1]

\* A shelf goal resolved to the aisle the robot already stands on.
C5_Witness ==
  /\ Returned /\ Searched /\ GoalOnShelf
  /\ start = goal
  /\ result.expansions = 1

\* C6: a shelf goal whose left and right neighbours are each a shelf or
\* outside the grid gives path None, cost inf, expansions 0 without the
\* search state being set up or anything popped.
C6_NoAccess ==
  (pc \notin {"idle", "resolve"} /\ GoalOnShelf
     /\ ~LeftIsAisle /\ ~RightIsAisle)
  => /\ Returned
     /\ result.path = None
     /\ result.cost = inf
     /\ result.expansions = 0
     /\ expansions = 0
     /\ open_set = <<>> /\ g_cost = EmptyDict

\* Such a shelf with an aisle above or below it that start can reach.
C6_Witness ==
  /\ Returned /\ GoalOnShelf /\ StartOnAisle
  /\ ~LeftIsAisle /\ ~RightIsAisle
  /\ \E q \in AisleCells(grid) :
       /\ q[1] = arg_goal[1]
       /\ q[2] \in {arg_goal[2] - 1, arg_goal[2] + 1}
       /\ AisleDist(grid, start, q) >= 0
  /\ result.path = None

\* C7: for a shelf goal with both left and right neighbours aisles the
\* resolved goal is the one with the smaller Manhattan distance to start,
\* the left one on a tie; with only one of them an aisle it is that one.
C7_Resolution ==
  (Searched /\ GoalOnShelf)
  => /\ (LeftIsAisle /\ RightIsAisle
          /\ L1(LeftOfGoal, start) < L1(RightOfGoal, start))
        => goal = LeftOfGoal
     /\ (LeftIsAisle /\ RightIsAisle
          /\ L1(LeftOfGoal, start) > L1(RightOfGoal, start))
        => goal = RightOfGoal
     /\ (LeftIsAisle /\ RightIsAisle
          /\ L1(LeftOfGoal, start) = L1(RightOfGoal, start))
        => goal = LeftOfGoal
     /\ (LeftIsAisle /\ ~RightIsAisle) => goal = LeftOfGoal
     /\ (~LeftIsAisle /\ RightIsAisle) => goal = RightOfGoal

\* Both neighbours are aisles at the same distance and the left one is taken.
C7_Witness ==
  /\ Searched /\ GoalOnShelf
  /\ LeftIsAisle /\ RightIsAisle
  /\ L1(LeftOfGoal, start) = L1(RightOfGoal, start)
  /\ goal = LeftOfGoal
  /\ Returned

\* C8 (as stated): for a shelf goal with a left or right aisle neighbour
\* joined to start by an aisle path, a path ending at such a reachable
\* neighbour is returned and the cost is not unreachable.
C8_ReachableNeighbour ==
  (Returned /\ GoalOnShelf /\ StartOnAisle
     /\ \E n \in {LeftOfGoal, RightOfGoal} \cap AisleCells(grid) :
          AisleDist(grid, start, n) >= 0)
  => /\ result.path # None
     /\ result.cost # inf
     /\ result.path[Len(result.path)] \in {LeftOfGoal, RightOfGoal}
     /\ AisleDist(grid, start, result.path[Len(result.path)]) >= 0

\* C8 (amended): the aisle substituted for a shelf goal is the left or right
\* aisle neighbour nearest to start by Manhattan distance (left on a tie),
\* reachable or not: from an aisle start a shortest path ending at it is
\* returned when an aisle path joins it to start, and path None with cost
\* inf when none does, whatever holds of the other neighbour.
C8_NearestByManhattan ==
  (Returned /\ GoalOnShelf /\ StartOnAisle
     /\ (LeftIsAisle \/ RightIsAisle))
  => /\ goal = NearerSide
     /\ AisleDist(grid, start, NearerSide) >= 0
        => /\ result.path # None
           /\ result.path[Len(result.path)] = NearerSide
           /\ result.cost = AisleDist(grid, start, NearerSide)
     /\ AisleDist(grid, start, NearerSide) < 0
        => /\ result.path = None
           /\ result.cost = inf

\* The neighbour chosen is cut off from start while the other one is not.
C8_Witness ==
  /\ Returned /\ GoalOnShelf /\ StartOnAisle
  /\ LeftIsAisle /\ RightIsAisle
  /\ AisleDist(grid, start, NearerSide) < 0
  /\ \E n \in {LeftOfGoal, RightOfGoal} : AisleDist(grid, start, n) >= 0
  /\ result.path = None

\* C9: a call whose start lies on a shelf is rejected: it pops nothing from
\* the frontier, examines no neighbour and returns no path.
C9_InvalidStart ==
  (pc \notin {"idle", "resolve"} /\ ~StartOnAisle)
  => /\ expansions = 0
     /\ pc \notin {"for", "walk"}
     /\ Returned => result.path = None

\* C10: when the resolved goal is an aisle no aisle path joins to start, the
\* loop ends on an empty frontier, no back-pointer walk is attempted and the
\* call returns path None with cost inf.
C10_Unreachable ==
  (Searched /\ AisleDist(grid, start, goal) < 0)
  => /\ grid[goal[2]][goal[1]] = 0
     /\ pc # "walk"
     /\ pc \in {"reconstruct", "done"} => open_set = <<>>
     /\ Returned => /\ result.path = None
                    /\ result.cost = inf
                    /\ result.expansions = expansions

\* A search from an aisle that expanded several cells before giving up.
C10_Witness ==
  /\ Returned /\ Searched /\ StartOnAisle /\ GoalOnAisle
  /\ AisleDist(grid, start, goal) < 0
  /\ result.path = None
  /\ result.expansions >= 3

\* C11: a_star_search and nearest_aisle leave the grid unchanged: no step of
\* a call, from its entry to its return, whatever its outcome, changes the
\* kind of any cell.
C11_GridUnchanged ==
  [][(pc # "idle" \/ pc' # "idle") => grid' = grid]_vars

\* A call that expanded several cells has returned and the shelves are still
\* exactly the ones that were placed.
C11_Witness ==
  /\ Returned
  /\ Len(popped) >= 3
  /\ placed # {}
  /\ Shelves(grid) = placed

\* C12: with the steps of two calls on one grid interleaved in any order, and
\* after any number of earlier calls, each call returns the path, cost and
\* expansions it returns when it runs alone.
C12_Isolated ==
  /\ Returned => result = a_star_alone(grid, start, arg_goal)
  /\ other.pc = "done"
     => other.result = a_star_alone(grid, other.start, other.arg_goal)

\* One call has returned a path of several steps while the other, started
\* from another cell, is in the middle of its loop.
C12_Witness ==
  /\ Returned
  /\ result.path # None
  /\ Len(result.path) >= 3
  /\ other.pc = "for"
  /\ other.expansions >= 2
  /\ other.start # start

\* A coordinate inside [0, width) x [0, height).
InRange(p) == 0 <= p[1] /\ p[1] < dims[1] /\ 0 <= p[2] /\ p[2] < dims[2]

\* C13: placing a shelf at a coordinate outside [0, width) x [0, height),
\* negative x or y included, fails with an error and leaves every cell of
\* the grid as it was.
C13_InvalidCoordinate ==
  [][\A p \in placed' \ placed :
       ~InRange(p) => (raised' # "none" /\ grid' = grid)]_vars

\* C14: after create_grid(width, height) and any sequence of add_obstacle
\* calls with in-range coordinates the grid has exactly height rows of
\* exactly width cells, every cell is 0 or 1, and a cell is a shelf if and
\* only if add_obstacle was called for its coordinate.
C14_GridShape ==
  /\ DOMAIN grid = 0..(dims[2] - 1)
  /\ \A y \in DOMAIN grid :
       /\ DOMAIN grid[y] = 0..(dims[1] - 1)
       /\ \A x \in DOMAIN grid[y] :
            /\ grid[y][x] \in {0, 1}
            /\ grid[y][x] = 1 <=> <<x, y>> \in placed

\* Shelves were placed off the diagonal of a grid that is not square.
C14_Witness ==
  /\ Cardinality(placed) = MaxShelves
  /\ dims[1] # dims[2]
  /\ \E p \in placed : p[1] # p[2]
  /\ \A p \in placed : grid[p[2]][p[1]] = 1

\* C15: generate_warehouse(w, h, a1, a2, a3) returns a w-by-h grid in which
\* cell (x, y) is a shelf if and only if x is odd and y is none of a1, a2,
\* a3; with the defaults (63, 13, 0, 6, 12) rows 0, 6 and 12 are all aisle.
C15_Warehouse ==
  /\ DOMAIN grid = 0..(dims[2] - 1)
  /\ \A y \in DOMAIN grid :
       /\ DOMAIN grid[y] = 0..(dims[1] - 1)
       /\ \A x \in DOMAIN grid[y] :
            grid[y][x] = (IF x % 2 = 1 /\ y \notin {aisle_rows[1],
                                                   aisle_rows[2],
                                                   aisle_rows[3]}
                          THEN 1 ELSE 0)
  /\ pc = "idle"
     => LET d == generate_warehouse(DefaultW, DefaultH, DefaultA1,
                                    DefaultA2, DefaultA3)
        IN /\ DOMAIN d = 0..12
           /\ \A y \in {0, 6, 12} :
                /\ DOMAIN d[y] = 0..62
                /\ \A x \in 0..62 : d[y][x] = 0
           /\ d[1][1] = 1

\* A warehouse with shelves, one aisle row inside the grid and one row
\* number outside it.
C15_Witness ==
  /\ dims = <<WhW, WhH>>
  /\ aisle_rows[1] = 1
  /\ aisle_rows[3] = WhH
  /\ grid[0][1] = 1
  /\ grid[1][1] = 0

\* C16 (as stated): in the default warehouse the goal (7, 6) of a search from
\* (0, 0) is a shelf, it is resolved to (6, 6) or (8, 6), and the returned
\* path has length 7.
C16_ShelfScenario ==
  Returned
  => /\ GoalOnShelf
     /\ goal \in {<<6, 6>>, <<8, 6>>}
     /\ result.path # None
     /\ (result.cost = 7 \/ Len(result.path) = 7)

\* C16 (amended): in the default warehouse (7, 6) lies on the clear row 6 and
\* is an aisle; the search from (0, 0) keeps it as its goal and returns a
\* path of 14 coordinates from (0, 0) to (7, 6), cost 13, after 36 pops.
C16_AisleScenario ==
  /\ pc # "idle" => (GoalOnAisle /\ goal = <<7, 6>>)
  /\ Returned
     => /\ result.path # None
        /\ Len(result.path) = 14
        /\ result.path[1] = <<0, 0>>
        /\ result.path[14] = <<7, 6>>
        /\ result.cost = 13
        /\ result.cost = L1(<<0, 0>>, <<7, 6>>)
        /\ result.expansions = 36

\* The scenario's call has returned its path.
C16_Witness ==
  /\ Returned
  /\ start = <<0, 0>> /\ arg_goal = <<7, 6>>
  /\ dims = <<63, 13>>
  /\ result.path # None
  /\ result.cost = 13

\* C17: in a search whose resolved goal can be reached, every entry popped
\* from the frontier has f <= g + the shortest aisle distance from its
\* coordinate to the resolved goal.
C17_Admissible ==
  (Searched /\ expansions > 0 /\ AisleDist(grid, start, goal) >= 0)
  => LET d == AisleDist(grid, current[3], goal)
     IN /\ StartOnAisle => d >= 0
        /\ d >= 0 => current[1] <= current[2] + d

\* A popped entry away from start whose f is below g plus the true distance,
\* a shelf lying between it and the goal.
C17_Witness ==
  /\ Searched /\ StartOnAisle /\ pc = "for"
  /\ AisleDist(grid, start, goal) >= 0
  /\ current[2] > 0
  /\ current[1] = current[2] + L1(current[3], goal)
  /\ current[1] < current[2] + AisleDist(grid, current[3], goal)

\* C18: every call terminates: from its entry it reaches its return; the
\* main loop is left only with the resolved goal popped or the frontier
\* empty, the back-pointer walk always has a back-pointer to follow until it
\* stands on start, and the result, once returned, does not change.
C18_Terminates ==
  /\ (pc = "resolve") ~> (pc = "done")
  /\ [](pc = "reconstruct" => (open_set = <<>> \/ current[3] = goal))
  /\ [](pc = "walk" => (node = start \/ node \in DOMAIN came_from))
  /\ [][(pc = "done" /\ pc' = "done") => result' = result]_vars

\* A call in a grid full of shelves has left the loop on the goal with
\* entries still in the frontier, walked back several steps and returned.
C18_Witness ==
  /\ Returned
  /\ result.path # None
  /\ Len(result.path) >= 4
  /\ open_set # <<>>
  /\ Cardinality(Shelves(grid)) = MaxShelves

\* C19: generate_sample records path_length -1 and path_exists 0 exactly when
\* a_star_search returned path None (with cost inf), and otherwise
\* path_exists 1 with path_length equal to the returned cost; start and goal
\* are recorded as drawn, the goal being the shelf and not the aisle it was
\* resolved to.
C19_SampleRow ==
  sample.state = "done"
  => LET r == sample.row
     IN /\ <<r[1], r[2]>> = start
        /\ <<r[3], r[4]>> = arg_goal
        /\ grid[r[4]][r[3]] = 1
        /\ Searched => <<r[3], r[4]>> # goal
        /\ result.path = None <=> (r[5] = -1 /\ r[6] = 0)
        /\ result.path = None => result.cost = inf
        /\ result.path # None => (r[5] = result.cost /\ r[6] = 1)
        /\ r[6] \in {0, 1}

\* A sample whose shelf was resolved to an aisle that a path of several
\* steps leads to.
C19_Witness ==
  /\ sample.state = "done"
  /\ Searched
  /\ result.path # None
  /\ Len(result.path) >= 3
  /\ sample.row[5] = Len(result.path) - 1
  /\ sample.row[6] = 1

\* C20: within one a_star_search call no coordinate is expanded more than
\* once: the coordinates popped so far in the call are pairwise distinct, a
\* coordinate already popped is not waiting in the frontier, and so no later
\* pop returns it again.
C20_NoReExpansion ==
  /\ \A i, j \in 1..Len(popped) : popped[i] = popped[j] => i = j
  /\ \A k \in 1..Len(open_set) :
        \A i \in 1..Len(popped) : open_set[k][3] # popped[i]
  /\ expansions = Len(popped)

\* A call that returned after expanding at least four coordinates while
\* others were still waiting in the frontier.
C20_Witness ==
  /\ Returned
  /\ Len(popped) >= 4
  /\ open_set # <<>>
  /\ result.expansions = Len(popped)

\* A step that pops the frontier.
PopStep == pc = "loop" /\ open_set # <<>> /\ pc' # "loop"

\* Entries a and b carry the same f and the same g.
SameFG(a, b) == a[1] = b[1] /\ a[2] = b[2]

\* C21 as stated: among frontier entries of equal f and equal g the one
\* inserted earliest is popped first, that is, no entry pushed before the
\* popped one carries its f and g.
C21_InsertionOrder ==
  [][PopStep =>
       \E i \in 1..Len(open_set) :
         /\ open_set[i] = current'
         /\ \A j \in 1..(i - 1) : ~SameFG(open_set[j], open_set[i])]_vars

\* C21 as the code has it: the popped entry has the least f, among those the
\* least g, and among entries of equal f and g the least coordinate (x first,
\* then y), wherever it stands in the order of insertion.
C21_CoordinateOrder ==
  [][PopStep =>
       /\ \E i \in 1..Len(open_set) : open_set[i] = current'
       /\ open_set' = SelectSeq(open_set, LAMBDA e : e # current')
       /\ \A j \in 1..Len(open_set) :
            LET o == open_set[j]
                e == current'
            IN \/ o = e
               \/ e[1] < o[1]
               \/ e[1] = o[1] /\ e[2] < o[2]
               \/ /\ SameFG(e, o)
                  /\ \/ e[3][1] < o[3][1]
                     \/ e[3][1] = o[3][1] /\ e[3][2] < o[3][2]]_vars

\* Position of coordinate p in the order of pops (0 when never popped).
PopIndex(p) ==
  IF \E i \in 1..Len(popped) : popped[i] = p
  THEN CHOOSE i \in 1..Len(popped) : popped[i] = p
  ELSE 0

\* Index in directions of the move that led from p's back-pointer to p.
DirIndex(p) ==
  CHOOSE d \in 1..Len(directions) :
    p = <<came_from[p][1] + directions[d][1], came_from[p][2] + directions[d][2]>>

\* Coordinate p was pushed before coordinate q: its back-pointer was expanded
\* earlier, or both were pushed from one cell and p's direction came first.
PushedBefore(p, q) ==
  \/ PopIndex(came_from[p]) < PopIndex(came_from[q])
  \/ came_from[p] = came_from[q] /\ DirIndex(p) < DirIndex(q)

\* An entry has just been popped while an entry of the same f and g that was
\* pushed before it (its parent was expanded earlier) still waits.
C21_Witness ==
  /\ pc = "for"
  /\ di = 1
  /\ \E j \in 1..Len(open_set) :
       /\ SameFG(open_set[j], current)
       /\ current[3] \in DOMAIN came_from
       /\ PushedBefore(open_set[j][3], current[3])

\* A step that places an entry in the frontier.
PushStep == Len(open_set') > Len(open_set)

\* The entry a PushStep has placed.
Pushed == open_set'[Len(open_set')]

\* C22 as stated: every entry placed in the frontier, the initial entry for
\* start included, carries f = g + Manhattan distance from its coordinate to
\* the resolved goal, g being the cost recorded for the coordinate.
C22_EveryEntry ==
  [][PushStep =>
       /\ Pushed[1] = Pushed[2] + L1(Pushed[3], goal')
       /\ Pushed[2] = g_cost'[Pushed[3]]]_vars

\* C22 as the code has it: the initial entry is (0, 0, start), with f = 0
\* whatever the distance from start to the resolved goal; every entry placed
\* later carries f = g + Manhattan distance to the resolved goal, g being the
\* cost recorded for its coordinate when it is placed.
C22_LaterEntries ==
  [][PushStep =>
       IF pc = "resolve"
       THEN Pushed = <<0, 0, start>> /\ g_cost'[start] = 0
       ELSE /\ Pushed[1] = Pushed[2] + L1(Pushed[3], goal)
            /\ Pushed[2] = g_cost'[Pushed[3]]
            /\ Pushed[3] # start]_vars

\* The initial entry was popped with f = 0 at a start two or more steps from
\* the resolved goal, and entries for its neighbours have been placed.
C22_Witness ==
  /\ pc = "loop"
  /\ current = <<0, 0, start>>
  /\ popped = <<start>>
  /\ L1(start, goal) >= 2
  /\ Len(open_set) >= 2
  /\ \A k \in 1..Len(open_set) :
       open_set[k][1] = 1 + L1(open_set[k][3], goal)

\* The call is between its initialisation and its return.
Searching == pc \in {"loop", "for", "reconstruct", "walk"}

\* Coordinate n is new to g_cost in this step, or its recorded g got
\* strictly smaller.
DiscoveredOrLowered(n) ==
  /\ n \in DOMAIN g_cost'
  /\ n \notin DOMAIN g_cost \/ g_cost'[n] < g_cost[n]

\* The neighbour the for loop looks at in the current state.
Examined ==
  <<current[3][1] + directions[di][1], current[3][2] + directions[di][2]>>

\* C23: during a search the g recorded for a coordinate never increases (and
\* no coordinate is forgotten); a back-pointer is written and a frontier
\* entry is placed only for a coordinate that the same step discovers or
\* whose g it strictly lowers; a neighbour reached at an equal or larger g
\* changes nothing.
C23_OnlyOnImprovement ==
  [][Searching =>
       /\ \A n \in DOMAIN g_cost :
            n \in DOMAIN g_cost' /\ g_cost'[n] <= g_cost[n]
       /\ \A n \in DOMAIN came_from' :
            (n \notin DOMAIN came_from \/ came_from'[n] # came_from[n])
            => DiscoveredOrLowered(n)
       /\ \A n \in DOMAIN came_from : n \in DOMAIN came_from'
       /\ \A n \in DOMAIN g_cost' : n \in DOMAIN g_cost \/ pc = "for"
       /\ Len(open_set') > Len(open_set)
          => /\ open_set' = Append(open_set, open_set'[Len(open_set')])
             /\ DiscoveredOrLowered(open_set'[Len(open_set')][3])
       /\ (/\ pc = "for"
           /\ Examined \in DOMAIN g_cost
           /\ g_cost[current[3]] + 1 >= g_cost[Examined])
          => UNCHANGED <<g_cost, came_from, open_set>>]_vars

\* The for loop has just looked at a neighbour that another cell had already
\* recorded at the same g: its back-pointer still names that other cell.
C23_Witness ==
  /\ pc = "for"
  /\ di >= 2
  /\ LET cur == current[3]
         n == <<cur[1] + directions[di - 1][1], cur[2] + directions[di - 1][2]>>
     IN /\ n \in DOMAIN came_from
        /\ came_from[n] # cur
        /\ g_cost[n] = g_cost[cur] + 1
        /\ \A k \in 1..Len(open_set) :
             \A l \in 1..Len(open_set) :
               open_set[k][3] = open_set[l][3] => k = l

\* C24: the expansions value a_star_search returns is the number of pops of
\* the call: every pop adds one to the counter, the pop of the resolved goal
\* included and whatever the g of the popped entry, and nothing else changes
\* it; a successful search with start different from the resolved goal pops
\* the goal last and reports at least cost + 1 expansions.
C24_CountsPops ==
  /\ [](Searched => expansions = Len(popped))
  /\ [](Returned => result.expansions = Len(popped))
  /\ []((Returned /\ result.path # None /\ start # goal)
         => /\ result.expansions >= result.cost + 1
            /\ popped[Len(popped)] = goal)
  /\ [][Searching =>
          expansions' = IF PopStep THEN expansions + 1 ELSE expansions]_vars

\* A successful search from a start other than the resolved goal that popped
\* more coordinates than its path holds, the goal last.
C24_Witness ==
  /\ Returned
  /\ result.path # None
  /\ start # goal
  /\ result.expansions = Len(popped)
  /\ result.expansions > result.cost + 1
  /\ popped[Len(popped)] = goal

\* Number of back-pointers followed from n until start is met, with at most
\* fuel steps; -1 when a pointer is missing or the fuel runs out (a cycle).
RECURSIVE BackSteps(_, _)
BackSteps(n, fuel) ==
  IF n = start THEN 0
  ELSE IF fuel = 0 \/ n \notin DOMAIN came_from THEN -1
  ELSE LET r == BackSteps(came_from[n], fuel - 1)
       IN IF r < 0 THEN -1 ELSE r + 1

\* C25: at every state of a search each coordinate with a back-pointer has
\* g one above the g of the cell its back-pointer names, start has no
\* back-pointer, every discovered coordinate leads back to start in exactly
\* g steps (so without a cycle), and the returned cost, len(path) - 1, is
\* the g recorded for the resolved goal.
C25_BackPointers ==
  Searched
  => /\ start \notin DOMAIN came_from
     /\ g_cost[start] = 0
     /\ DOMAIN g_cost = DOMAIN came_from \cup {start}
     /\ \A n \in DOMAIN came_from :
          /\ came_from[n] \in DOMAIN g_cost
          /\ g_cost[n] = g_cost[came_from[n]] + 1
          /\ L1(n, came_from[n]) = 1
     /\ \A n \in DOMAIN g_cost :
          BackSteps(n, Cardinality(DOMAIN g_cost)) = g_cost[n]
     /\ (Returned /\ result.path # None)
        => /\ result.cost = Len(result.path) - 1
           /\ result.cost = g_cost[goal]

\* A search that returned a path of three or more steps after discovering
\* a coordinate at g >= 2 that is not on the path.
C25_Witness ==
  /\ Returned
  /\ result.path # None
  /\ result.cost >= 3
  /\ result.cost = g_cost[goal]
  /\ \E n \in DOMAIN came_from :
       /\ g_cost[n] >= 2
       /\ \A k \in 1..Len(result.path) : result.path[k] # n

\* C26: within one call the f values of successively popped entries never
\* decrease: each pop after the first returns an entry whose f is at least
\* the f of the entry popped before it, and the first pop returns f = 0.
C26_MonotoneF ==
  [][PopStep =>
       IF expansions = 0
       THEN current'[1] = 0
       ELSE current'[1] >= current[1]]_vars

\* An entry has just been popped, the fourth or later of its call, whose f
\* lies above the distance from start to the resolved goal: the f of the pops
\* has grown on the way.
C26_Witness ==
  /\ pc = "for"
  /\ di = 1
  /\ expansions >= 4
  /\ current[1] > L1(start, goal)
  /\ current[1] = current[2] + L1(current[3], goal)

\* Some of a1, a2, a3 names a row of the grid.
SomeAisleRow == \E k \in 1..3 : aisle_rows[k] \in 0..(dims[2] - 1)

\* C27: in a grid produced by generate_warehouse(w, h, a1, a2, a3) with at
\* least one of a1, a2, a3 in [0, h), a search from any aisle start to any
\* shelf goal resolves the shelf to a horizontally adjacent aisle and returns
\* a path to it, never None, so generate_sample records path_exists = 1.
C27_AlwaysPath ==
  (SomeAisleRow /\ sample.state # "none")
  => /\ grid[start[2]][start[1]] = 0
     /\ grid[arg_goal[2]][arg_goal[1]] = 1
     /\ pc \notin {"idle", "resolve"}
        => /\ Searched
           /\ goal[2] = arg_goal[2]
           /\ Abs(goal[1] - arg_goal[1]) = 1
           /\ grid[goal[2]][goal[1]] = 0
     /\ Returned
        => /\ result.path # None
           /\ result.path[1] = start
           /\ result.path[Len(result.path)] = goal
           /\ result.cost < inf
     /\ sample.state = "done"
        => /\ sample.row[6] = 1
           /\ sample.row[5] = result.cost

\* A sample recorded in a warehouse whose only aisle row inside the grid is
\* the last one: the path leaves the column of start through that row.
C27_Witness ==
  /\ sample.state = "done"
  /\ sample.row[6] = 1
  /\ sample.row[5] >= 5
  /\ dims = <<WhW, WhH>>
  /\ aisle_rows = <<WhH - 1, WhH, WhH>>
  /\ Abs(start[1] - goal[1]) >= 2

\* C28: for every in-range (x, y), is_free(grid, x, y) returns false when
\* add_obstacle(grid, x, y) was called before and true when it never was:
\* both address the same cell.
C28_SameCell ==
  probe.state = "done"
  => probe.value = (IF probe.obstacle THEN "False" ELSE "True")

\* C29: in GridEnvironment max_steps bounds the steps of an episode: the
\* step that brings step_count to max_steps returns done = True, so within
\* an episode step_count never exceeds max_steps, also when moves are
\* rejected as out of bounds or into a wall.
C29_MaxSteps ==
  env.state = "ready"
  => /\ env.step_count <= max_steps
     /\ env.step_count = max_steps => env.done

\* The cell next to pos at the k-th offset of _get_surrounding.
CellAround(pos, k) == <<pos[1] + around[k][1], pos[2] + around[k][2]>>

\* C30: _get_surrounding gives, for each of the 8 cells around the agent,
\* 1.0 when the cell is out of bounds or a wall (grid value 1) and 0.0 when
\* it is a walkable cell (grid value 0).
C30_Surrounding ==
  (env.state = "ready" /\ env.surrounding # <<>>)
  => \A k \in 1..8 :
       LET c == CellAround(env.agent_pos, k)
           inside == /\ c[1] \in 0..(dims[2] - 1)
                     /\ c[2] \in 0..(dims[1] - 1)
       IN env.surrounding[k] =
            (IF ~inside THEN 1
             ELSE IF grid[c[1]][c[2]] = 1 THEN 1
             ELSE 0)

=============================================================================
